---- MODULE Spec2Model ----
(***************************************************************************)
(* MuleShield-AI, Network Graph page: the clustered layout computation     *)
(* processGraphData and the page state around it.                          *)
(*                                                                         *)
(* Numbers that the code computes with trigonometry are kept symbolic: a   *)
(* position records the cluster centre it is measured from, the ring       *)
(* radius and the angle as a fraction of a turn, so that two positions are *)
(* equal exactly when the code computes them from equal operands.          *)
(***************************************************************************)
EXTENDS Integers, Sequences, FiniteSets, TLC

(* ----------------------------------------------------------------------- *)
(* Bounds of the model                                                     *)
(* ----------------------------------------------------------------------- *)
MaxNodes == 3
MaxEdges == 2
MaxRingNodes == 11
MaxPatternRequests == 1
MaxJitter == 1
MaxStartClicks == 1
MaxStopCalls == 1

(* ----------------------------------------------------------------------- *)
(* JavaScript values and arithmetic                                        *)
(* ----------------------------------------------------------------------- *)
\* `undefined` for an optional integer: the empty tuple; a present value c is <<c>>
Undefined == <<>>

\* a string is falsy exactly when it is empty; '' is <<>>, String(c) is <<c>>
Truthy(str) == str # <<>>

\* parseInt(String(c)) for the decimal string of an integer
ParseInt(str) == str[1]

\* faulty variant: the quotient is truncated toward zero
MathTruncDiv(a, b) == IF a >= 0 THEN a \div b ELSE -((-a) \div b)

\* Math.floor(a / b) for b > 0
MathFloorDiv(a, b) == IF a >= 0 THEN a \div b ELSE -(((-a) + b - 1) \div b)

\* a % b in JavaScript: the remainder takes the sign of the dividend
JsRem(a, b) == IF a >= 0 THEN a % b ELSE -((-a) % b)

Min2(a, b) == IF a < b THEN a ELSE b

\* Array.prototype.filter
Filter(arr, Keep(_)) == SelectSeq(arr, Keep)

Range(arr) == {arr[i] : i \in DOMAIN arr}

(* ----------------------------------------------------------------------- *)
(* processGraphData (clustered layout), stage by stage                     *)
(* ----------------------------------------------------------------------- *)
clusterColors ==
  << "#ef4444", "#3b82f6", "#10b981", "#f59e0b", "#8b5cf6",
     "#ec4899", "#06b6d4", "#84cc16", "#f97316", "#6366f1" >>

\* clusterColors[i]: undefined outside 0..9
ColorAt(i) == IF i \in 0..(Len(clusterColors) - 1) THEN clusterColors[i + 1] ELSE "undefined"

\* faulty variant: the cluster selection is not applied
NodePassesAnyCluster(node, f) ==
  /\ ~(f.showMuleOnly /\ ~node.mule_suspected)
  /\ ~(node.risk_score < f.minRiskScore)

\* faulty variant: the risk test excludes a score equal to the minimum
NodePassesAboveMinimum(node, f) ==
  /\ ~(f.showMuleOnly /\ ~node.mule_suspected)
  /\ ~(node.risk_score <= f.minRiskScore)
  /\ ~(Truthy(f.cluster) /\ node.cluster_id # <<ParseInt(f.cluster)>>)

\* faulty variant: the risk test keeps the scores up to the minimum
NodePassesUpToMinimum(node, f) ==
  /\ ~(f.showMuleOnly /\ ~node.mule_suspected)
  /\ ~(node.risk_score > f.minRiskScore)
  /\ ~(Truthy(f.cluster) /\ node.cluster_id # <<ParseInt(f.cluster)>>)

\* the predicate of data.nodes.filter(...)
NodePasses(node, f) ==
  /\ ~(f.showMuleOnly /\ ~node.mule_suspected)
  /\ ~(node.risk_score < f.minRiskScore)
  /\ ~(Truthy(f.cluster) /\ node.cluster_id # <<ParseInt(f.cluster)>>)

filteredNodesOf(data, f) == Filter(data.nodes, LAMBDA n : NodePasses(n, f))

nodeIdsOf(fNodes) == {fNodes[i].id : i \in DOMAIN fNodes}

\* faulty variant: an edge from a node to itself is dropped
filteredEdgesWithoutLoops(data, fNodes) ==
  Filter(data.edges, LAMBDA edge : /\ edge.source \in nodeIdsOf(fNodes)
                                   /\ edge.target \in nodeIdsOf(fNodes)
                                   /\ edge.source # edge.target)

\* faulty variant: the edges are not filtered
filteredEdgesUnfiltered(data, fNodes) == data.edges

\* faulty variant: only the source of an edge is looked up among the visible nodes
filteredEdgesBySource(data, fNodes) ==
  Filter(data.edges, LAMBDA e : e.source \in nodeIdsOf(fNodes))

filteredEdgesOf(data, fNodes) ==
  Filter(data.edges, LAMBDA e : e.source \in nodeIdsOf(fNodes) /\ e.target \in nodeIdsOf(fNodes))

\* key under which a node is pushed into clusterGroups
GroupKey(node) == IF node.cluster_id # Undefined THEN node.cluster_id[1] ELSE -1

GroupKeys(fNodes) == {GroupKey(fNodes[i]) : i \in DOMAIN fNodes}

\* the keys of clusterGroups in the order the forEach creates them
RECURSIVE InsertionKeys(_, _, _)
InsertionKeys(fNodes, i, acc) ==
  IF i > Len(fNodes) THEN acc
  ELSE InsertionKeys(fNodes, i + 1,
         IF GroupKey(fNodes[i]) \in Range(acc) THEN acc ELSE Append(acc, GroupKey(fNodes[i])))

RECURSIVE Ascending(_)
Ascending(S) ==
  IF S = {} THEN <<>>
  ELSE LET m == CHOOSE x \in S : \A y \in S : x <= y
       IN  <<m>> \o Ascending(S \ {m})

\* Object.entries(clusterGroups): property order of an object is the
\* integer-index keys ascending, then the other string keys ("-1", ...) in
\* insertion order
ObjectKeyOrder(fNodes) ==
  LET created == InsertionKeys(fNodes, 1, <<>>)
  IN  Ascending({k \in Range(created) : k >= 0}) \o SelectSeq(created, LAMBDA k : k < 0)

clusterNodesOf(fNodes, k) == Filter(fNodes, LAMBDA n : GroupKey(n) = k)

\* connectionCount[id] || 0
connectionCount(fEdges, id) ==
  Cardinality({i \in DOMAIN fEdges : fEdges[i].source = id}) +
  Cardinality({i \in DOMAIN fEdges : fEdges[i].target = id})

\* faulty variant: ascending comparator
CompareCountAscending(countA, countB) == countA - countB

\* comparator (a, b) => countB - countA: negative puts a first
CompareCount(countA, countB) == countB - countA

\* a stable sort keeps elements that compare equal in their original order:
\* node goes after every element it does not strictly precede
RECURSIVE InsertSorted(_, _, _, _)
InsertSorted(sorted, node, fEdges, i) ==
  IF i > Len(sorted) THEN Append(sorted, node)
  ELSE IF CompareCount(connectionCount(fEdges, node.id), connectionCount(fEdges, sorted[i].id)) < 0
    THEN SubSeq(sorted, 1, i - 1) \o <<node>> \o SubSeq(sorted, i, Len(sorted))
  ELSE InsertSorted(sorted, node, fEdges, i + 1)

\* [...clusterNodes].sort(comparator)
RECURSIVE sortedNodesFrom(_, _, _, _)
sortedNodesFrom(cNodes, fEdges, i, acc) ==
  IF i > Len(cNodes) THEN acc
  ELSE sortedNodesFrom(cNodes, fEdges, i + 1, InsertSorted(acc, cNodes[i], fEdges, 1))

sortedNodesOf(cNodes, fEdges) == sortedNodesFrom(cNodes, fEdges, 1, <<>>)

\* centerX, centerY: determined by the cluster's index among the entries,
\* the number of clusters and the cluster size (through clusterRadius)
ClusterCenter(clusterIdx, numClusters, clusterSize) ==
  [clusterIdx |-> clusterIdx, numClusters |-> numClusters, clusterSize |-> clusterSize]

\* x = centerX + ringRadius * cos(angle), y likewise with sin;
\* angle = (posInRing / nodesInRing) * 2 pi + angleOffset.
\* 0 / 0 and n / 0 make the angle NaN or infinite, and then x and y NaN;
\* a ring radius of 0 gives the centre itself whatever the (finite) angle.
PointAt(center, ringRadius, posInRing, nodesInRing, ringParity) ==
  IF nodesInRing = 0
    THEN [nan |-> TRUE, center |-> center, ringRadius |-> 0, turn |-> <<0, 1>>, offset |-> 0]
  ELSE IF ringRadius = 0
    THEN [nan |-> FALSE, center |-> center, ringRadius |-> 0, turn |-> <<0, 1>>, offset |-> 0]
  ELSE [nan |-> FALSE, center |-> center, ringRadius |-> ringRadius,
        turn |-> <<posInRing, nodesInRing>>, offset |-> ringParity]

\* faulty variant: the ring's node count is taken one ring too far out
PlacementNextRingCount(idx, clusterSize, center) ==
  IF idx = 0 /\ clusterSize > 1
    THEN PointAt(center, 0, 0, 1, 0)
  ELSE LET ring == MathFloorDiv(idx - 1, 8) + 1
           posInRing == JsRem(idx - 1, 8)
           nodesInRing == Min2(8, clusterSize - 1 - ring * 8)
           ringRadius == ring * 60
       IN  PointAt(center, ringRadius, posInRing, nodesInRing, JsRem(ring, 2))

\* faulty variant: the ring is computed from idx, not from idx - 1
PlacementRingFromIdx(idx, clusterSize, center) ==
  IF idx = 0 /\ clusterSize > 1
    THEN PointAt(center, 0, 0, 1, 0)
  ELSE LET ring == MathFloorDiv(idx, 8) + 1
           posInRing == JsRem(idx - 1, 8)
           nodesInRing == Min2(8, clusterSize - 1 - (ring - 1) * 8)
           ringRadius == ring * 60
       IN  PointAt(center, ringRadius, posInRing, nodesInRing, JsRem(ring, 2))

\* faulty variant: no angular offset on odd rings
PlacementWithoutOffset(idx, clusterSize, center) ==
  IF idx = 0 /\ clusterSize > 1
    THEN PointAt(center, 0, 0, 1, 0)
  ELSE LET ring == MathFloorDiv(idx - 1, 8) + 1
           posInRing == JsRem(idx - 1, 8)
           nodesInRing == Min2(8, clusterSize - 1 - (ring - 1) * 8)
           ringRadius == ring * 60
       IN  PointAt(center, ringRadius, posInRing, nodesInRing, 0)

\* faulty variant: the position in the ring is computed from idx, not from idx - 1
PlacementPosFromIdx(idx, clusterSize, center) ==
  IF idx = 0 /\ clusterSize > 1
    THEN PointAt(center, 0, 0, 1, 0)
  ELSE LET ring == MathFloorDiv(idx - 1, 8) + 1
           posInRing == JsRem(idx, 8)
           nodesInRing == Min2(8, clusterSize - 1 - (ring - 1) * 8)
           ringRadius == ring * 60
       IN  PointAt(center, ringRadius, posInRing, nodesInRing, JsRem(ring, 2))

\* the body of sortedNodes.forEach((node, idx) => ...): the position
Placement(idx, clusterSize, center) ==
  IF idx = 0 /\ clusterSize > 1
    THEN PointAt(center, 0, 0, 1, 0)
  ELSE LET ring == MathFloorDiv(idx - 1, 8) + 1
           posInRing == JsRem(idx - 1, 8)
           nodesInRing == Min2(8, clusterSize - 1 - (ring - 1) * 8)
           ringRadius == ring * 60
       IN  PointAt(center, ringRadius, posInRing, nodesInRing, JsRem(ring, 2))

\* the object of flowNodes.push({...})
flowNode(node, idx, clusterSize, center, clusterColor, fEdges, highlightId) ==
  [ id |-> node.id,
    position |-> Placement(idx, clusterSize, center),
    cluster_id |-> node.cluster_id,
    highlighted |-> (highlightId # <<>> /\ node.id = highlightId[1]),
    degree |-> connectionCount(fEdges, node.id),
    clusterColor |-> clusterColor ]

\* sortedNodes.forEach((node, idx) => ...)
RECURSIVE clusterFlowNodes(_, _, _, _, _, _, _)
clusterFlowNodes(sortedNodes, center, clusterColor, fEdges, highlightId, p, acc) ==
  IF p > Len(sortedNodes) THEN acc
  ELSE clusterFlowNodes(sortedNodes, center, clusterColor, fEdges, highlightId, p + 1,
         Append(acc, flowNode(sortedNodes[p], p - 1, Len(sortedNodes), center, clusterColor,
                              fEdges, highlightId)))

\* Object.entries(clusterGroups).forEach(([clusterId, clusterNodes], clusterIdx) => ...)
RECURSIVE flowNodesFrom(_, _, _, _, _, _)
flowNodesFrom(fNodes, fEdges, highlightId, order, ci, acc) ==
  IF ci > Len(order) THEN acc
  ELSE LET cNodes == clusterNodesOf(fNodes, order[ci])
           clusterIdx == ci - 1
           center == ClusterCenter(clusterIdx, Len(order), Len(cNodes))
           clusterColor == ColorAt(JsRem(clusterIdx, Len(clusterColors)))
       IN  flowNodesFrom(fNodes, fEdges, highlightId, order, ci + 1,
             clusterFlowNodes(sortedNodesOf(cNodes, fEdges), center, clusterColor,
                              fEdges, highlightId, 1, acc))

flowNodesOf(fNodes, fEdges, highlightId) ==
  flowNodesFrom(fNodes, fEdges, highlightId, ObjectKeyOrder(fNodes), 1, <<>>)

\* nodeClusterMap[id]: the node's own cluster_id (undefined when it has none
\* and also when the id is not a key)
nodeClusterMap(fl, id) ==
  IF \E i \in DOMAIN fl : fl[i].id = id
    THEN fl[CHOOSE i \in DOMAIN fl : fl[i].id = id /\ \A j \in DOMAIN fl : fl[j].id = id => j <= i].cluster_id
    ELSE Undefined

\* patterns?.circular?.count > 0; patterns is null (<<>>) or <<circular.count>>
isPartOfCircularOf(patterns) == patterns # <<>> /\ patterns[1] > 0

\* style of a raw edge: stroke, strokeWidth (tenths), opacity (tenths)
edgeStyle(isHighRisk, isPartOfCircular, isIntraCluster, srcCluster) ==
  IF isHighRisk THEN [stroke |-> "#ef4444", strokeWidth |-> 25, opacity |-> 9]
  ELSE IF isPartOfCircular THEN [stroke |-> "#f59e0b", strokeWidth |-> 20, opacity |-> 7]
  ELSE IF isIntraCluster
    THEN [stroke |-> ColorAt(JsRem(IF srcCluster # Undefined THEN srcCluster[1] ELSE 0, Len(clusterColors))),
          strokeWidth |-> 12, opacity |-> 5]
  ELSE [stroke |-> "#64748b", strokeWidth |-> 12, opacity |-> 4]

\* the object filteredEdges.map((edge, index) => ...) returns for one edge
flowEdge(edge, index, fl, patterns) ==
  LET isPartOfCircular == isPartOfCircularOf(patterns)
      isHighRisk == edge.suspicious
      srcCluster == nodeClusterMap(fl, edge.source)
      tgtCluster == nodeClusterMap(fl, edge.target)
      isIntraCluster == srcCluster # Undefined /\ srcCluster = tgtCluster
  IN  [ id |-> [kind |-> "e", a |-> index, b |-> 0],
        source |-> edge.source,
        target |-> edge.target,
        type |-> IF isIntraCluster THEN "default" ELSE "smoothstep",
        animated |-> isHighRisk,
        style |-> edgeStyle(isHighRisk, isPartOfCircular, isIntraCluster, srcCluster),
        data |-> [isHighRisk |-> isHighRisk, isPartOfCircular |-> isPartOfCircular,
                  isIntraCluster |-> isIntraCluster,
                  isClusterConnector |-> FALSE, clusters |-> <<>>] ]

RECURSIVE flowEdgesFrom(_, _, _, _, _)
flowEdgesFrom(fEdges, fl, patterns, i, acc) ==
  IF i > Len(fEdges) THEN acc
  ELSE flowEdgesFrom(fEdges, fl, patterns, i + 1, Append(acc, flowEdge(fEdges[i], i - 1, fl, patterns)))

flowEdgesOf(fEdges, fl, patterns) == flowEdgesFrom(fEdges, fl, patterns, 1, <<>>)

\* faulty variant: countB >= countA keeps the last member of maximal count
RECURSIVE centerNodeFromLastMax(_, _, _, _)
centerNodeFromLastMax(cNodes, fEdges, best, i) ==
  IF i > Len(cNodes) THEN best
  ELSE LET countA == connectionCount(fEdges, best.id)
           countB == connectionCount(fEdges, cNodes[i].id)
       IN  centerNodeFromLastMax(cNodes, fEdges, IF countB >= countA THEN cNodes[i] ELSE best, i + 1)

\* clusterNodes.reduce((best, node) => countB > countA ? node : best, clusterNodes[0])
RECURSIVE centerNodeFrom(_, _, _, _)
centerNodeFrom(cNodes, fEdges, best, i) ==
  IF i > Len(cNodes) THEN best
  ELSE LET countA == connectionCount(fEdges, best.id)
           countB == connectionCount(fEdges, cNodes[i].id)
       IN  centerNodeFrom(cNodes, fEdges, IF countB > countA THEN cNodes[i] ELSE best, i + 1)

\* clusterCenters[key]: the id of the centre node of the group, undefined
\* when clusterGroups has no such key
clusterCenters(fNodes, fEdges, key) ==
  IF key \in GroupKeys(fNodes)
    THEN LET cNodes == clusterNodesOf(fNodes, key)
         IN  <<centerNodeFrom(cNodes, fEdges, cNodes[1], 1).id>>
    ELSE Undefined

\* strings are sequences of one-character strings
DigitChars == <<"0", "1", "2", "3", "4", "5", "6", "7", "8", "9">>

RECURSIVE DecimalString(_)
DecimalString(n) ==
  IF n < 10 THEN <<DigitChars[n + 1]>>
  ELSE DecimalString(n \div 10) \o <<DigitChars[(n % 10) + 1]>>

\* String(n) for an integer n
NumberToString(n) == IF n < 0 THEN <<"-">> \o DecimalString(-n) ELSE DecimalString(n)

\* [a, b].sort((x, y) => x - y).join('-')
PairString(a, b) ==
  LET lo == IF b - a < 0 THEN b ELSE a
      hi == IF b - a < 0 THEN a ELSE b
  IN  NumberToString(lo) \o <<"-">> \o NumberToString(hi)

\* str.split('-'): the pieces between the separators
RECURSIVE SplitDash(_, _)
SplitDash(str, piece) ==
  IF str = <<>> THEN <<piece>>
  ELSE IF Head(str) = "-" THEN <<piece>> \o SplitDash(Tail(str), <<>>)
  ELSE SplitDash(Tail(str), Append(piece, Head(str)))

DigitValue(ch) == (CHOOSE d \in DOMAIN DigitChars : DigitChars[d] = ch) - 1

\* Number(piece) for a piece made of decimal digits; Number('') is 0
RECURSIVE StringToNumber(_, _)
StringToNumber(piece, acc) ==
  IF piece = <<>> THEN acc
  ELSE StringToNumber(Tail(piece), acc * 10 + DigitValue(Head(piece)))

\* const [c1, c2] = pair.split('-').map(Number)
PairClusters(pair) ==
  LET pieces == SplitDash(pair, <<>>)
  IN  <<StringToNumber(pieces[1], 0), StringToNumber(pieces[2], 0)>>

\* connectedClusters after the forEach over filteredEdges: a Set keeps its
\* members in order of first insertion
RECURSIVE connectedClustersFrom(_, _, _, _)
connectedClustersFrom(fEdges, fl, i, acc) ==
  IF i > Len(fEdges) THEN acc
  ELSE LET srcCluster == nodeClusterMap(fl, fEdges[i].source)
           tgtCluster == nodeClusterMap(fl, fEdges[i].target)
           crossing == srcCluster # Undefined /\ tgtCluster # Undefined /\ srcCluster # tgtCluster
           pair == PairString(srcCluster[1], tgtCluster[1])
       IN  connectedClustersFrom(fEdges, fl, i + 1,
             IF crossing /\ pair \notin Range(acc) THEN Append(acc, pair) ELSE acc)

connectedClustersOf(fEdges, fl) == connectedClustersFrom(fEdges, fl, 1, <<>>)

connectorEdge(c1, c2, center1, center2) ==
  [ id |-> [kind |-> "cluster-conn", a |-> c1, b |-> c2],
    source |-> center1,
    target |-> center2,
    type |-> "straight",
    animated |-> TRUE,
    style |-> [stroke |-> "#a855f7", strokeWidth |-> 40, opacity |-> 7],
    data |-> [isHighRisk |-> FALSE, isPartOfCircular |-> FALSE, isIntraCluster |-> FALSE,
              isClusterConnector |-> TRUE, clusters |-> <<c1, c2>>] ]

\* connectedClusters.forEach(pair => ... clusterConnectorEdges.push(...))
RECURSIVE clusterConnectorEdgesFrom(_, _, _, _)
clusterConnectorEdgesFrom(pairs, fNodes, fEdges, i) ==
  IF i > Len(pairs) THEN <<>>
  ELSE LET cs == PairClusters(pairs[i])
           center1 == clusterCenters(fNodes, fEdges, cs[1])
           center2 == clusterCenters(fNodes, fEdges, cs[2])
       IN  (IF center1 # Undefined /\ center2 # Undefined
              THEN <<connectorEdge(cs[1], cs[2], center1[1], center2[1])>>
              ELSE <<>>)
           \o clusterConnectorEdgesFrom(pairs, fNodes, fEdges, i + 1)

\* the two collections processGraphData hands to setNodes and setEdges
processGraphData(data, f, highlightId, patterns) ==
  LET fNodes == filteredNodesOf(data, f)
      fEdges == filteredEdgesOf(data, fNodes)
      fl == flowNodesOf(fNodes, fEdges, highlightId)
      flowEdges == flowEdgesOf(fEdges, fl, patterns)
      connectors == clusterConnectorEdgesFrom(connectedClustersOf(fEdges, fl), fNodes, fEdges, 1)
  IN  [nodes |-> fl, edges |-> flowEdges \o connectors]

(* ----------------------------------------------------------------------- *)
(* Inputs                                                                  *)
(* ----------------------------------------------------------------------- *)
\* cluster ids of the data model: -1 and two detected clusters
ClusterIds == {-1, 0, 1}
ClusterValues == {Undefined} \cup {<<c>> : c \in ClusterIds}
DetectedClusterValues == {Undefined, <<0>>, <<1>>}
MinRiskScores == {0, 70, 75}

\* risk scores 10, 75, 90 by position in the node list
RiskByPosition(i) == <<10, 75, 90>>[((i - 1) % 3) + 1]

NoFilter == [showMuleOnly |-> FALSE, minRiskScore |-> 0, cluster |-> <<>>]

\* the values the filter controls can produce
FilterConfigs ==
  [showMuleOnly : BOOLEAN, minRiskScore : MinRiskScores, cluster : {<<>>, <<0>>, <<1>>}]

PlainEdge(s, t) == [source |-> s, target |-> t, suspicious |-> FALSE]

\* the edges of the chain 1 -> 2 -> ... -> n, the edge 2 -> 1 and the loop 1 -> 1
EdgePool(n) ==
  {PlainEdge(i, i + 1) : i \in 1..(n - 1)} \cup {PlainEdge(2, 1) : i \in 2..n} \cup {PlainEdge(1, 1)}

\* lists of at most m different edges of the pool
EdgeLists(n, m) ==
  UNION {{es \in [1..k -> EdgePool(n)] : \A i, j \in 1..k : i # j => es[i] # es[j]} : k \in 0..m}

\* the chain 1 -> 2 -> ... -> n
ChainEdges(n) == [i \in 1..(n - 1) |-> PlainEdge(i, i + 1)]

\* the star k -> every other node, first edge suspicious
StarEdges(n, k) ==
  [i \in 1..(n - 1) |-> [source |-> k, target |-> IF i < k THEN i ELSE i + 1, suspicious |-> i = 1]]

\* a node every filter setting except the cluster filter leaves visible
PlainNode(i, cluster) ==
  [id |-> i, risk_score |-> 75, mule_suspected |-> TRUE, cluster_id |-> cluster]

\* small graph, every node visible
GeneralGraph(n, cl, es) == [nodes |-> [i \in 1..n |-> PlainNode(i, cl[i])], edges |-> es]

\* small graph for filtering: flags and clusters at[i] over a chain of edges
FilterGraph(n, at) ==
  [nodes |-> [i \in 1..n |-> [id |-> i, risk_score |-> RiskByPosition(i),
                              mule_suspected |-> at[i][1], cluster_id |-> at[i][2]]],
   edges |-> ChainEdges(n)]

\* graph with large clusters: the first k nodes in cluster 0, the rest in cluster 1
RingGraph(n, k, es) ==
  [nodes |-> [i \in 1..n |-> PlainNode(i, IF i <= k THEN <<0>> ELSE <<1>>)], edges |-> es]

\* edges with an endpoint that is the id of no node of an n-node graph
DanglingEdgePool(n) ==
  { [source |-> n + 1, target |-> 1, suspicious |-> FALSE],
    [source |-> 1, target |-> n + 1, suspicious |-> TRUE],
    [source |-> n + 1, target |-> n + 2, suspicious |-> FALSE] }

InsertAt(arr, i, e) == SubSeq(arr, 1, i) \o <<e>> \o SubSeq(arr, i + 1, Len(arr))

\* a chain graph in two clusters with dangling edges among its edges: the
\* edges of inserted after position at, those of appended at the end
DanglingGraph(n, k, inserted, at, appended) ==
  RingGraph(n, k, InsertAt(ChainEdges(n), at, inserted) \o appended)

(* ----------------------------------------------------------------------- *)
(* State of the page                                                       *)
(* ----------------------------------------------------------------------- *)
VARIABLES
  fullData,      \* useState(null): <<>> or <<graph>>
  filters,       \* useState({showMuleOnly, minRiskScore, cluster})
  highlightId,   \* searchParams.get('highlight'): <<>> or <<id>>
  patterns,      \* useState(null): <<>> or <<circular.count>>
  nodes,         \* useNodesState([])
  edges,         \* useEdgesState([])
  loading,       \* useState(true)
  graphRequests, \* calls of fetchGraphData awaiting the response, with the closure they hold
  patternRequests, \* calls of fetchPatterns awaiting the responses
  effectPending, \* a dependency of the recomputation effect changed since it last ran
  response,      \* history: the payload of the latest getMuleNetwork response, <<>> before it
  lastRun,       \* history: the arguments of the latest processGraphData call
  prevRun,       \* history: arguments and result of the call before it
  \* TransactionStream.jsx
  isStreaming,   \* useState(false)
  isConnecting,  \* useState(false)
  connectionStatus, \* useState('disconnected')
  wsRef,         \* transactionWsRef, alertWsRef, statsWsRef: .current by endpoint, 0 for null
  sockets,       \* the WebSocket objects not yet closed: [endpoint, number, readyState]
  created,       \* how many times the three sockets have been created
  startCalls,    \* calls of startStream awaiting the response of /api/stream/start
  stopCalls,     \* calls of stopStream awaiting the response of /api/stream/stop
  statusCheck,   \* checkStatus of the mount effect: "pending" or "done"
  running,       \* the backend: whether the stream is running
  stopped        \* history: a stopStream completed and no startStream has connected since

graphVars == <<fullData, filters, highlightId, patterns, nodes, edges, loading,
               graphRequests, patternRequests, effectPending, response, lastRun, prevRun>>

streamVars == <<isStreaming, isConnecting, connectionStatus, wsRef, sockets, created,
                startCalls, stopCalls, statusCheck, running, stopped>>

vars == <<graphVars, streamVars>>

\* the endpoints startStream connects to
Endpoints == {"/ws/transactions", "/ws/alerts", "/ws/stats"}

\* the transaction stream page is not mounted
StreamUnmounted ==
  /\ isStreaming = FALSE
  /\ isConnecting = FALSE
  /\ connectionStatus = "disconnected"
  /\ wsRef = [e \in Endpoints |-> 0]
  /\ sockets = {}
  /\ created = 0
  /\ startCalls = 0
  /\ stopCalls = 0
  /\ statusCheck = "done"
  /\ running = FALSE
  /\ stopped = FALSE

hostVars == <<loading, graphRequests, patternRequests, effectPending, response>>

\* the arguments and closure values one call of processGraphData reads
RunOf(data, f, h, p) == [data |-> data, filters |-> f, highlightId |-> h, patterns |-> p]

(* ----------------------------------------------------------------------- *)
(* The layout computation on its own: any graph, any filter                *)
(* ----------------------------------------------------------------------- *)
Init ==
  /\ \/ /\ \E n \in 1..MaxNodes : \E cl \in [1..n -> ClusterValues] :
             \E es \in EdgeLists(n, MaxEdges) : fullData = <<GeneralGraph(n, cl, es)>>
        /\ filters = NoFilter
     \/ /\ \E n \in 1..MaxNodes : \E at \in [1..n -> BOOLEAN \X DetectedClusterValues] :
             fullData = <<FilterGraph(n, at)>>
        /\ filters \in FilterConfigs
     \/ /\ \E n \in (MaxNodes + 1)..MaxRingNodes : \E k \in 0..n :
             \E es \in {<<>>, StarEdges(n, n)} : fullData = <<RingGraph(n, k, es)>>
        /\ filters = NoFilter
     \/ /\ \E n \in 2..MaxNodes : \E k \in 0..n : \E at \in 0..(n - 1) :
             \E d \in DanglingEdgePool(n) : \E e \in {<<>>} \cup {<<x>> : x \in DanglingEdgePool(n)} :
               fullData = <<DanglingGraph(n, k, d, at, e)>>
        /\ filters \in {NoFilter, [NoFilter EXCEPT !.cluster = <<0>>]}
  /\ highlightId = <<>>
  /\ patterns = <<>>
  /\ nodes = <<>>
  /\ edges = <<>>
  /\ loading = FALSE
  /\ graphRequests = {}
  /\ patternRequests = 0
  /\ effectPending = FALSE
  /\ response = <<>>
  /\ lastRun = <<>>
  /\ prevRun = <<>>
  /\ StreamUnmounted

\* faulty variant: the node list of the argument is sorted in place
InvokeSortingInput ==
  /\ fullData # <<>>
  /\ LET out == processGraphData(fullData[1], filters, highlightId, patterns)
     IN  /\ nodes' = out.nodes
         /\ edges' = out.edges
  /\ lastRun' = <<RunOf(fullData[1], filters, highlightId, patterns)>>
  /\ fullData' = <<[nodes |-> sortedNodesOf(fullData[1].nodes, fullData[1].edges),
                    edges |-> fullData[1].edges]>>
  /\ UNCHANGED <<filters, highlightId, patterns, hostVars, prevRun, streamVars>>

\* processGraphData(fullData) with the current closure
Invoke ==
  /\ fullData # <<>>
  /\ LET out == processGraphData(fullData[1], filters, highlightId, patterns)
     IN  /\ nodes' = out.nodes
         /\ edges' = out.edges
  /\ lastRun' = <<RunOf(fullData[1], filters, highlightId, patterns)>>
  /\ UNCHANGED <<fullData, filters, highlightId, patterns, hostVars, prevRun, streamVars>>

Next == Invoke

Spec == Init /\ [][Next]_vars

(* ----------------------------------------------------------------------- *)
(* The page: fetching, filter controls, the recomputation effect           *)
(* ----------------------------------------------------------------------- *)
\* a ?? b: b when a is null or undefined
Coalesce(a, b) == IF a # Undefined THEN a ELSE b

\* a payload node or account without a field carries <<>> in its place
AccountOf(muleAccounts, id) ==
  IF \E i \in DOMAIN muleAccounts : muleAccounts[i].id = id
    THEN <<muleAccounts[CHOOSE i \in DOMAIN muleAccounts :
             muleAccounts[i].id = id /\ \A j \in DOMAIN muleAccounts : muleAccounts[j].id = id => j <= i]>>
    ELSE Undefined

\* one node of normalizedData.nodes (the fields the layout reads)
NormalizeNode(node, account) ==
  [ id |-> node.id,
    risk_score |->
      Coalesce(node.risk_score,
               Coalesce(IF account # Undefined THEN account[1].composite_risk_score ELSE Undefined,
                        <<0>>))[1],
    mule_suspected |->
      Coalesce(node.mule_suspected,
               Coalesce(IF account # Undefined THEN account[1].mule_suspected ELSE Undefined,
                        <<FALSE>>))[1],
    cluster_id |->
      Coalesce(node.cluster_id, IF account # Undefined THEN account[1].cluster_id ELSE Undefined) ]

\* normalizedData of fetchGraphData: a missing collection is read as []
NormalizePayload(payload) ==
  LET rawNodes == IF payload.nodes # Undefined THEN payload.nodes[1] ELSE <<>>
      muleAccounts == IF payload.mule_accounts # Undefined THEN payload.mule_accounts[1] ELSE <<>>
  IN  [ nodes |-> [i \in DOMAIN rawNodes |->
                     NormalizeNode(rawNodes[i], AccountOf(muleAccounts, rawNodes[i].id))],
        edges |-> IF payload.edges # Undefined THEN payload.edges[1] ELSE <<>> ]

RawNode(id, risk, mule, cluster) ==
  [id |-> id, risk_score |-> risk, mule_suspected |-> mule, cluster_id |-> cluster]

\* responses of the mule-network endpoint used in the model
PayloadA ==
  [ nodes |-> << << RawNode(1, <<75>>, <<TRUE>>, <<0>>),
                    RawNode(2, <<>>, <<>>, <<>>),
                    RawNode(3, <<90>>, <<FALSE>>, <<1>>) >> >>,
    edges |-> << << PlainEdge(1, 2), PlainEdge(2, 3) >> >>,
    mule_accounts |-> << << [id |-> 2, composite_risk_score |-> <<10>>,
                             mule_suspected |-> <<TRUE>>, cluster_id |-> <<0>>] >> >> ]

PayloadB ==
  [ nodes |-> << << RawNode(1, <<90>>, <<TRUE>>, <<1>>),
                    RawNode(2, <<75>>, <<>>, <<>>) >> >>,
    edges |-> << << [source |-> 1, target |-> 2, suspicious |-> TRUE] >> >>,
    mule_accounts |-> <<>> ]

PayloadNoNodes == [nodes |-> <<>>, edges |-> << <<PlainEdge(1, 2)>> >>, mule_accounts |-> <<>>]

PayloadNoEdges ==
  [ nodes |-> << << RawNode(1, <<75>>, <<TRUE>>, <<0>>), RawNode(2, <<90>>, <<TRUE>>, <<0>>) >> >>,
    edges |-> <<>>,
    mule_accounts |-> <<>> ]

Payloads == {PayloadA, PayloadB, PayloadNoNodes, PayloadNoEdges}

\* the positions of the risk slider and the other controls used by the page model
HostFilterConfigs == {f \in FilterConfigs : f.minRiskScore \in {0, 75}}

HighlightIds == {<<>>, <<1>>}
PatternCounts == {0, 1}

\* the values a closure of one render holds for processGraphData
ClosureOf(f, h, p) == [filters |-> f, highlightId |-> h, patterns |-> p]

\* the options of the cluster select: '' and every cluster id of fullData
ClusterOptions ==
  {<<>>} \cup (IF fullData = <<>> THEN {}
               ELSE {fullData[1].nodes[i].cluster_id : i \in DOMAIN fullData[1].nodes} \ {Undefined})

\* after the first render and its effects: fetchGraphData and fetchPatterns
\* are awaiting their responses
HostInit ==
  /\ fullData = <<>>
  /\ filters = NoFilter
  /\ highlightId \in HighlightIds
  /\ patterns = <<>>
  /\ nodes = <<>>
  /\ edges = <<>>
  /\ loading = TRUE
  /\ graphRequests = {ClosureOf(filters, highlightId, patterns)}
  /\ patternRequests = 1
  /\ effectPending = FALSE
  /\ response = <<>>
  /\ lastRun = <<>>
  /\ prevRun = <<>>
  /\ StreamUnmounted

\* setNodes(flowNodes); setEdges([...]) of a processGraphData call
Display(data, f, h, p) ==
  /\ LET out == processGraphData(data, f, h, p)
     IN  /\ nodes' = out.nodes
         /\ edges' = out.edges
  /\ lastRun' = <<RunOf(data, f, h, p)>>

\* faulty variant: filters is missing from the dependencies
EffectIgnoresFilters(what) == what \in {"fullData", "highlightId", "patterns"}

\* which state changes make the recomputation effect run again: its
\* dependencies are filters, fullData and processGraphData, and
\* processGraphData is rebuilt when filters, highlightId or patterns change
EffectDependsOn(what) == what \in {"filters", "fullData", "highlightId", "patterns"}

\* an onChange handler of the filter controls: setFilters(prev => ({...prev, field}))
SetFilters ==
  /\ ~loading
  /\ \E f \in HostFilterConfigs :
       /\ f.cluster \in ClusterOptions \cup {filters.cluster}
       /\ \/ f = [filters EXCEPT !.showMuleOnly = ~filters.showMuleOnly]
          \/ f # filters /\ \E m \in MinRiskScores : f = [filters EXCEPT !.minRiskScore = m]
          \/ f # filters /\ \E c \in ClusterOptions : f = [filters EXCEPT !.cluster = c]
       /\ filters' = f
  /\ effectPending' = (effectPending \/ EffectDependsOn("filters"))
  /\ UNCHANGED <<response, fullData, highlightId, patterns, nodes, edges, loading,
                 graphRequests, patternRequests, lastRun, prevRun, streamVars>>

\* the Refresh button: fetchGraphData(); fetchPatterns()
Refresh ==
  /\ ~loading
  /\ patternRequests < MaxPatternRequests
  /\ loading' = TRUE
  /\ graphRequests' = graphRequests \cup {ClosureOf(filters, highlightId, patterns)}
  /\ patternRequests' = patternRequests + 1
  /\ UNCHANGED <<response, fullData, filters, highlightId, patterns, nodes, edges,
                 effectPending, lastRun, prevRun, streamVars>>

\* fetchGraphData after the await: the response arrived
GraphResponse ==
  \E req \in graphRequests : \E payload \in Payloads :
    LET normalizedData == NormalizePayload(payload)
    IN  /\ fullData' = <<normalizedData>>
        /\ Display(normalizedData, req.filters, req.highlightId, req.patterns)
        /\ effectPending' = (effectPending \/ EffectDependsOn("fullData"))
        /\ loading' = FALSE
        /\ response' = <<payload>>
        /\ graphRequests' = graphRequests \ {req}
        /\ UNCHANGED <<filters, highlightId, patterns, patternRequests, prevRun, streamVars>>

\* fetchGraphData: the request failed (catch, finally)
GraphFailure ==
  \E req \in graphRequests :
    /\ loading' = FALSE
    /\ graphRequests' = graphRequests \ {req}
    /\ UNCHANGED <<response, fullData, filters, highlightId, patterns, nodes, edges,
                   patternRequests, effectPending, lastRun, prevRun, streamVars>>

\* fetchPatterns after the await: setPatterns({circular, ...})
PatternsResponse ==
  /\ patternRequests > 0
  /\ \E count \in PatternCounts : patterns' = <<count>>
  /\ patternRequests' = patternRequests - 1
  /\ effectPending' = (effectPending \/ EffectDependsOn("patterns"))
  /\ UNCHANGED <<response, fullData, filters, highlightId, nodes, edges, loading,
                 graphRequests, lastRun, prevRun, streamVars>>

\* fetchPatterns: a request failed (catch)
PatternsFailure ==
  /\ patternRequests > 0
  /\ patternRequests' = patternRequests - 1
  /\ UNCHANGED <<response, fullData, filters, highlightId, patterns, nodes, edges, loading,
                 graphRequests, effectPending, lastRun, prevRun, streamVars>>

\* the highlight search parameter of the URL changes
Navigate ==
  /\ \E h \in HighlightIds : h # highlightId /\ highlightId' = h
  /\ effectPending' = (effectPending \/ EffectDependsOn("highlightId"))
  /\ UNCHANGED <<response, fullData, filters, patterns, nodes, edges, loading,
                 graphRequests, patternRequests, lastRun, prevRun, streamVars>>

\* useEffect(() => { if (fullData) processGraphData(fullData) }, [filters, fullData, processGraphData])
RecomputeEffect ==
  /\ effectPending
  /\ effectPending' = FALSE
  /\ IF fullData # <<>>
       THEN Display(fullData[1], filters, highlightId, patterns)
       ELSE UNCHANGED <<nodes, edges, lastRun>>
  /\ UNCHANGED <<response, fullData, filters, highlightId, patterns, loading,
                 graphRequests, patternRequests, prevRun, streamVars>>

HostNext ==
  \/ SetFilters
  \/ Refresh
  \/ GraphResponse
  \/ GraphFailure
  \/ PatternsResponse
  \/ PatternsFailure
  \/ Navigate
  \/ RecomputeEffect

SpecHost == HostInit /\ [][HostNext]_vars

(* ----------------------------------------------------------------------- *)
(* The loaded page under a sequence of filter changes                      *)
(* ----------------------------------------------------------------------- *)
\* the page once fetchGraphData and fetchPatterns have completed and the
\* recomputation effect has run: the default filters are displayed
LoadedInit ==
  /\ \E payload \in {PayloadA, PayloadB} :
       /\ response = <<payload>>
       /\ fullData = <<NormalizePayload(payload)>>
  /\ filters = NoFilter
  /\ highlightId \in HighlightIds
  /\ patterns \in {<<count>> : count \in PatternCounts}
  /\ LET out == processGraphData(fullData[1], filters, highlightId, patterns)
     IN  /\ nodes = out.nodes
         /\ edges = out.edges
  /\ loading = FALSE
  /\ graphRequests = {}
  /\ patternRequests = 0
  /\ effectPending = FALSE
  /\ lastRun = <<RunOf(fullData[1], filters, highlightId, patterns)>>
  /\ prevRun = <<>>
  /\ StreamUnmounted

\* faulty variant: the recomputation filters the graph that is displayed,
\* not fullData
RecomputeFromDisplayed ==
  /\ effectPending
  /\ effectPending' = FALSE
  /\ fullData # <<>>
  /\ LET shown == {nodes[i].id : i \in DOMAIN nodes}
         keepNode(n) == n.id \in shown
         displayed == [nodes |-> Filter(fullData[1].nodes, keepNode),
                       edges |-> fullData[1].edges]
         out == processGraphData(displayed, filters, highlightId, patterns)
     IN  /\ nodes' = out.nodes
         /\ edges' = out.edges
  /\ lastRun' = <<RunOf(fullData[1], filters, highlightId, patterns)>>
  /\ prevRun' = <<[run |-> lastRun[1], nodes |-> nodes, edges |-> edges]>>
  /\ UNCHANGED <<response, fullData, filters, highlightId, patterns, loading,
                 graphRequests, patternRequests, streamVars>>

\* the recomputation effect on the loaded page; the call before it and what
\* that call displayed are remembered in prevRun
RecomputeLoaded ==
  /\ effectPending
  /\ effectPending' = FALSE
  /\ fullData # <<>>
  /\ Display(fullData[1], filters, highlightId, patterns)
  /\ prevRun' = <<[run |-> lastRun[1], nodes |-> nodes, edges |-> edges]>>
  /\ UNCHANGED <<response, fullData, filters, highlightId, patterns, loading,
                 graphRequests, patternRequests, streamVars>>

LoadedNext ==
  \/ SetFilters
  \/ RecomputeLoaded

SpecLoaded == LoadedInit /\ [][LoadedNext]_vars

(* ----------------------------------------------------------------------- *)
(* The grid layout of the earlier page                                     *)
(* ----------------------------------------------------------------------- *)
\* Math.random() * 50 lies in [0, 50); the model draws it from 0..MaxJitter
JitterValues == 0 .. MaxJitter

gridFlowNodes(data, f, h, jitterX, jitterY) ==
  LET visible == filteredNodesOf(data, f)
  IN  [ i \in DOMAIN visible |->
          [ id |-> visible[i].id,
            position |-> [ x |-> JsRem(i - 1, 8) * 220 + jitterX[i],
                           y |-> MathFloorDiv(i - 1, 8) * 180 + jitterY[i] ],
            highlighted |-> (h # Undefined /\ h[1] = visible[i].id) ] ]

\* the edges carry no weight in the model: Math.min(edge.weight || 1, 4) is 1
gridFlowEdges(data, f) ==
  LET kept == filteredEdgesOf(data, filteredNodesOf(data, f))
  IN  [ i \in DOMAIN kept |->
          [ id |-> [kind |-> "e", a |-> i - 1, b |-> 0],
            source |-> kept[i].source,
            target |-> kept[i].target,
            animated |-> kept[i].suspicious,
            style |-> [ stroke |-> IF kept[i].suspicious THEN "#ef4444" ELSE "#94a3b8",
                        strokeWidth |-> Min2(1, 4) ] ] ]

GridInit ==
  /\ \E n \in {1, 2} : fullData = <<RingGraph(n, n, ChainEdges(n))>>
  /\ filters = NoFilter
  /\ highlightId = <<>>
  /\ patterns = <<>>
  /\ nodes = <<>>
  /\ edges = <<>>
  /\ loading = FALSE
  /\ graphRequests = {}
  /\ patternRequests = 0
  /\ effectPending = FALSE
  /\ response = <<>>
  /\ lastRun = <<>>
  /\ prevRun = <<>>
  /\ StreamUnmounted

\* one call of the grid processGraphData; the previous call and what it
\* displayed are remembered in prevRun
InvokeGrid ==
  /\ fullData # <<>>
  /\ LET count == Len(filteredNodesOf(fullData[1], filters))
     IN  \E jitterX \in [1 .. count -> JitterValues] :
         \E jitterY \in [1 .. count -> JitterValues] :
           nodes' = gridFlowNodes(fullData[1], filters, highlightId, jitterX, jitterY)
  /\ edges' = gridFlowEdges(fullData[1], filters)
  /\ prevRun' = IF lastRun = <<>> THEN <<>>
                ELSE <<[run |-> lastRun[1], nodes |-> nodes, edges |-> edges]>>
  /\ lastRun' = <<RunOf(fullData[1], filters, highlightId, patterns)>>
  /\ UNCHANGED <<fullData, filters, highlightId, patterns, hostVars, streamVars>>

GridNext == InvokeGrid

SpecGrid == GridInit /\ [][GridNext]_vars

(* ----------------------------------------------------------------------- *)
(* The transaction stream page                                             *)
(* ----------------------------------------------------------------------- *)
\* the network graph page is not mounted
GraphUnmounted ==
  /\ fullData = <<>>
  /\ filters = NoFilter
  /\ highlightId = <<>>
  /\ patterns = <<>>
  /\ nodes = <<>>
  /\ edges = <<>>
  /\ loading = FALSE
  /\ graphRequests = {}
  /\ patternRequests = 0
  /\ effectPending = FALSE
  /\ response = <<>>
  /\ lastRun = <<>>
  /\ prevRun = <<>>

\* after the first render and the mount effect: checkStatus awaits its
\* response; the backend stream may be running already
StreamInit ==
  /\ GraphUnmounted
  /\ isStreaming = FALSE
  /\ isConnecting = FALSE
  /\ connectionStatus = "disconnected"
  /\ wsRef = [e \in Endpoints |-> 0]
  /\ sockets = {}
  /\ created = 0
  /\ startCalls = 0
  /\ stopCalls = 0
  /\ statusCheck = "pending"
  /\ running \in BOOLEAN
  /\ stopped = FALSE

\* new WebSocket(WS_URL + endpoint)
connectWebSocket(endpoint, number) ==
  [endpoint |-> endpoint, number |-> number, readyState |-> "connecting"]

\* startStream up to the await: setIsConnecting(true); fetch(/api/stream/start)
startStream ==
  /\ isConnecting' = TRUE
  /\ startCalls' = startCalls + 1

\* the Start button (shown while not streaming, disabled while connecting)
ClickStart ==
  /\ ~isStreaming
  /\ ~isConnecting
  /\ created + startCalls < MaxStartClicks
  /\ startStream
  /\ UNCHANGED <<isStreaming, connectionStatus, wsRef, sockets, created, stopCalls,
                 statusCheck, running, stopped, graphVars>>

\* startStream after the await: status started or already_running;
\* setIsStreaming(true), the three connectWebSocket calls, finally
StartResponse ==
  /\ startCalls > 0
  /\ startCalls' = startCalls - 1
  /\ running' = TRUE
  /\ isStreaming' = TRUE
  /\ sockets' = sockets \cup {connectWebSocket(e, created + 1) : e \in Endpoints}
  /\ wsRef' = [e \in Endpoints |-> created + 1]
  /\ created' = created + 1
  /\ isConnecting' = FALSE
  /\ stopped' = FALSE
  /\ UNCHANGED <<connectionStatus, stopCalls, statusCheck, graphVars>>

\* startStream: the request failed (catch, finally)
StartFailure ==
  /\ startCalls > 0
  /\ startCalls' = startCalls - 1
  /\ isConnecting' = FALSE
  /\ UNCHANGED <<isStreaming, connectionStatus, wsRef, sockets, created, stopCalls,
                 statusCheck, running, stopped, graphVars>>

\* the Stop button (shown while streaming): stopStream up to the await
ClickStop ==
  /\ isStreaming
  /\ stopCalls < MaxStopCalls
  /\ stopCalls' = stopCalls + 1
  /\ UNCHANGED <<isStreaming, isConnecting, connectionStatus, wsRef, sockets, created,
                 startCalls, statusCheck, running, stopped, graphVars>>

\* stopStream after the await: close and clear the three refs
StopResponse ==
  /\ stopCalls > 0
  /\ stopCalls' = stopCalls - 1
  /\ running' = FALSE
  /\ sockets' = {s \in sockets : wsRef[s.endpoint] # s.number}
  /\ wsRef' = [e \in Endpoints |-> 0]
  /\ isStreaming' = FALSE
  /\ connectionStatus' = "disconnected"
  /\ stopped' = TRUE
  /\ UNCHANGED <<isConnecting, created, startCalls, statusCheck, graphVars>>

\* stopStream: the request failed (catch)
StopFailure ==
  /\ stopCalls > 0
  /\ stopCalls' = stopCalls - 1
  /\ UNCHANGED <<isStreaming, isConnecting, connectionStatus, wsRef, sockets, created,
                 startCalls, statusCheck, running, stopped, graphVars>>

\* checkStatus after the await: if (data.running) { setIsStreaming(true); startStream() }
StatusResponse ==
  /\ statusCheck = "pending"
  /\ statusCheck' = "done"
  /\ IF running
       THEN /\ isStreaming' = TRUE
            /\ startStream
       ELSE UNCHANGED <<isStreaming, isConnecting, startCalls>>
  /\ UNCHANGED <<connectionStatus, wsRef, sockets, created, stopCalls, running, stopped,
                 graphVars>>

\* checkStatus: the request failed (catch)
StatusFailure ==
  /\ statusCheck = "pending"
  /\ statusCheck' = "done"
  /\ UNCHANGED <<isStreaming, isConnecting, connectionStatus, wsRef, sockets, created,
                 startCalls, stopCalls, running, stopped, graphVars>>

\* ws.onopen
SocketOpened ==
  \E s \in sockets :
    /\ s.readyState = "connecting"
    /\ sockets' = (sockets \ {s}) \cup {[s EXCEPT !.readyState = "open"]}
    /\ connectionStatus' = "connected"
    /\ UNCHANGED <<isStreaming, isConnecting, wsRef, created, startCalls, stopCalls,
                   statusCheck, running, stopped, graphVars>>

\* the connection fails or the server closes it: ws.onclose
SocketClosed ==
  \E s \in sockets :
    /\ sockets' = sockets \ {s}
    /\ wsRef' = IF wsRef[s.endpoint] = s.number
                  THEN [wsRef EXCEPT ![s.endpoint] = 0]
                  ELSE wsRef
    /\ UNCHANGED <<isStreaming, isConnecting, connectionStatus, created, startCalls,
                   stopCalls, statusCheck, running, stopped, graphVars>>

StreamNext ==
  \/ ClickStart
  \/ StartResponse
  \/ StartFailure
  \/ ClickStop
  \/ StopResponse
  \/ StopFailure
  \/ StatusResponse
  \/ StatusFailure
  \/ SocketOpened
  \/ SocketClosed

SpecStream == StreamInit /\ [][StreamNext]_vars

(* ----------------------------------------------------------------------- *)
(* Properties of one layout computation                                    *)
(* ----------------------------------------------------------------------- *)
Ran == lastRun # <<>>
InData == lastRun[1].data
InFilters == lastRun[1].filters

\* the filter contract of the specification
Qualifies(n, f) ==
  /\ (~f.showMuleOnly \/ n.mule_suspected)
  /\ n.risk_score >= f.minRiskScore
  /\ (f.cluster = <<>> \/ (n.cluster_id # Undefined /\ n.cluster_id[1] = ParseInt(f.cluster)))

QualifyingIds == {InData.nodes[i].id : i \in {j \in DOMAIN InData.nodes : Qualifies(InData.nodes[j], InFilters)}}
EmittedIds == {nodes[i].id : i \in DOMAIN nodes}
RawEdges == SelectSeq(edges, LAMBDA e : ~e.data.isClusterConnector)
ConnectorEdges == SelectSeq(edges, LAMBDA e : e.data.isClusterConnector)

\* cluster group of an emitted node: its cluster id, -1 when it has none
GroupOf(id) == GroupKey(nodes[CHOOSE i \in DOMAIN nodes : nodes[i].id = id])
EmittedGroups == {GroupKey(nodes[i]) : i \in DOMAIN nodes}
MembersOf(k) == {i \in DOMAIN nodes : GroupKey(nodes[i]) = k}
AtCenter(i) == ~nodes[i].position.nan /\ nodes[i].position.ringRadius = 0
InputIndex(id) == CHOOSE i \in DOMAIN InData.nodes : InData.nodes[i].id = id

\* C1: the emitted nodes are exactly the input nodes that satisfy the filter
\* (flag, minimum risk score, cluster)
FilterCorrectness == Ran => EmittedIds = QualifyingIds

\* scenario C: minimum 70 over the scores 10, 75, 90 leaves the nodes scoring 75 and 90
FilterCorrectnessWitness ==
  /\ Ran
  /\ InFilters = [showMuleOnly |-> FALSE, minRiskScore |-> 70, cluster |-> <<>>]
  /\ [i \in DOMAIN InData.nodes |-> InData.nodes[i].risk_score] = <<10, 75, 90>>
  /\ EmittedIds = {2, 3}

\* C2: every visible node id is positioned exactly once and no emitted
\* position is NaN or undefined
Completeness ==
  Ran => /\ \A id \in QualifyingIds : Cardinality({i \in DOMAIN nodes : nodes[i].id = id}) = 1
         /\ \A i \in DOMAIN nodes : ~nodes[i].position.nan

\* a cluster of 10 (second ring started) next to a cluster of 1
CompletenessWitness ==
  /\ Ran
  /\ Cardinality(MembersOf(0)) = 10
  /\ Cardinality(MembersOf(1)) = 1
  /\ \A i \in DOMAIN nodes : ~nodes[i].position.nan
  /\ \E i \in MembersOf(0) : nodes[i].position.ringRadius = 120

\* C3: both endpoints of every emitted edge, raw or connector, are ids of
\* emitted nodes
EdgeValidity ==
  Ran => \A i \in DOMAIN edges : edges[i].source \in EmittedIds /\ edges[i].target \in EmittedIds

\* a connector is emitted while a raw edge to a hidden node was dropped
EdgeValidityWitness ==
  /\ Ran
  /\ Len(ConnectorEdges) > 0
  /\ Len(RawEdges) > 0
  /\ Len(RawEdges) < Len(InData.edges)

CrossedGroupPairs ==
  {{GroupOf(RawEdges[i].source), GroupOf(RawEdges[i].target)} :
     i \in {j \in DOMAIN RawEdges : GroupOf(RawEdges[j].source) # GroupOf(RawEdges[j].target)}}

\* C7: there are as many connector edges as unordered pairs of different
\* clusters joined by a visible edge, a node without cluster id counting as
\* cluster -1
ConnectorMinimality == Ran => Len(ConnectorEdges) = Cardinality(CrossedGroupPairs)

\* id of the node at the centre of cluster group k
HubId(k) == nodes[CHOOSE i \in MembersOf(k) : AtCenter(i)].id

ClusterIdOf(id) == nodes[CHOOSE i \in DOMAIN nodes : nodes[i].id = id].cluster_id

\* raw edges whose endpoints carry two different cluster ids
CrossingEdges ==
  {i \in DOMAIN RawEdges :
     /\ ClusterIdOf(RawEdges[i].source) # Undefined
     /\ ClusterIdOf(RawEdges[i].target) # Undefined
     /\ ClusterIdOf(RawEdges[i].source) # ClusterIdOf(RawEdges[i].target)}

\* C8: for every pair of cluster ids (-1 included) crossed by a visible
\* edge a connector joins the hubs of those two clusters, every connector
\* joins the hubs of a crossed pair, and two clusters with one crossing edge
\* give exactly one connector
ConnectorEndpoints ==
  Ran =>
    /\ \A i \in CrossingEdges :
         \E c \in DOMAIN ConnectorEdges :
           {ConnectorEdges[c].source, ConnectorEdges[c].target}
             = {HubId(GroupOf(RawEdges[i].source)), HubId(GroupOf(RawEdges[i].target))}
    /\ \A c \in DOMAIN ConnectorEdges :
         \E i \in CrossingEdges :
           {ConnectorEdges[c].source, ConnectorEdges[c].target}
             = {HubId(GroupOf(RawEdges[i].source)), HubId(GroupOf(RawEdges[i].target))}
    /\ (Cardinality(EmittedGroups) = 2 /\ Cardinality(CrossingEdges) = 1) => Len(ConnectorEdges) = 1

\* the category an emitted edge is drawn in, read off its style
StyleCategory(e) ==
  IF e.style = [stroke |-> "#a855f7", strokeWidth |-> 40, opacity |-> 7] THEN "cluster-connector"
  ELSE IF e.style = [stroke |-> "#ef4444", strokeWidth |-> 25, opacity |-> 9] THEN "suspicious"
  ELSE IF e.style.strokeWidth = 12 /\ e.style.opacity = 5 THEN "intra-cluster"
  ELSE IF e.style = [stroke |-> "#64748b", strokeWidth |-> 12, opacity |-> 4] THEN "inter-cluster"
  ELSE "other"

\* the category the priority order suspicious, intra-cluster, inter-cluster assigns
PriorityCategory(e) ==
  IF e.data.isClusterConnector THEN "cluster-connector"
  ELSE IF e.animated THEN "suspicious"
  ELSE IF GroupOf(e.source) = GroupOf(e.target) THEN "intra-cluster"
  ELSE "inter-cluster"

\* C9: every emitted edge is drawn in the category chosen in the order
\* suspicious, intra-cluster, inter-cluster (connectors: cluster-connector)
\* and nothing else pre-empts these
EdgeCategoryPriority ==
  Ran => \A i \in DOMAIN edges : StyleCategory(edges[i]) = PriorityCategory(edges[i])

(* ----------------------------------------------------------------------- *)
(* Repeated computations and the page state                                *)
(* ----------------------------------------------------------------------- *)
\* C4: two consecutive invocations on the same input display identical node
\* positions and an identical edge set
LayoutDeterminism ==
  (lastRun # <<>> /\ prevRun # <<>> /\ prevRun[1].run = lastRun[1]) =>
    /\ nodes = prevRun[1].nodes
    /\ edges = prevRun[1].edges

Positions(fl) == [i \in DOMAIN fl |-> [id |-> fl[i].id, position |-> fl[i].position]]

Classification(es) ==
  [i \in DOMAIN es |->
     [id |-> es[i].id, source |-> es[i].source, target |-> es[i].target,
      type |-> es[i].type, style |-> es[i].style]]

\* C5: for the graph and filter configuration of the displayed layout, the
\* node positions and the edge classification are what the computation
\* yields with no highlighted id and no detected patterns, whatever the page
\* state was when it ran
HostStateIndependence ==
  Ran =>
    LET reference == processGraphData(InData, InFilters, Undefined, Undefined)
    IN  /\ Positions(nodes) = Positions(reference.nodes)
        /\ Classification(edges) = Classification(reference.edges)

\* C10: once the recomputation effect has run, the displayed nodes and edges
\* are the full computation over the current graph and the current filter
\* configuration; no filter or graph change leaves an older layout displayed
RecomputationAfterChange ==
  (~effectPending /\ fullData # <<>>) =>
    LET out == processGraphData(fullData[1], filters, highlightId, patterns)
    IN  /\ nodes = out.nodes
        /\ edges = out.edges

\* a filter change and a refresh were both followed by a recomputation that
\* displays fewer nodes than the graph holds
RecomputationAfterChangeWitness ==
  /\ ~effectPending
  /\ ~loading
  /\ graphRequests = {}
  /\ fullData # <<>>
  /\ filters # NoFilter
  /\ Ran
  /\ InFilters = filters
  /\ InData = fullData[1]
  /\ Len(nodes) > 0
  /\ Len(nodes) < Len(fullData[1].nodes)

(* ----------------------------------------------------------------------- *)
(* Degenerate inputs                                                       *)
(* ----------------------------------------------------------------------- *)
NodeIdsOfData(data) == {data.nodes[i].id : i \in DOMAIN data.nodes}

IsDangling(data, e) == e.source \notin NodeIdsOfData(data) \/ e.target \notin NodeIdsOfData(data)

\* the graph without the edges that name an id of no node
WithoutDangling(data) ==
  [nodes |-> data.nodes, edges |-> SelectSeq(data.edges, LAMBDA e : ~IsDangling(data, e))]

\* C11: the displayed nodes (positions, degrees, hub) and edges are those of
\* the same graph without its dangling edges; no dangling edge is emitted
DanglingEdgesInert ==
  Ran =>
    /\ [nodes |-> nodes, edges |-> edges]
         = processGraphData(WithoutDangling(InData), InFilters,
                            lastRun[1].highlightId, lastRun[1].patterns)
    /\ \A i \in DOMAIN edges : ~IsDangling(InData, edges[i])

\* dangling edges before and after the edges of a three-node chain whose
\* middle node is the hub
DanglingEdgesInertWitness ==
  /\ Ran
  /\ Len(InData.nodes) = 3
  /\ Len(InData.edges) = 4
  /\ IsDangling(InData, InData.edges[1])
  /\ IsDangling(InData, InData.edges[4])
  /\ Len(RawEdges) = 2
  /\ \E i \in DOMAIN nodes : nodes[i].id = 2 /\ nodes[i].degree = 2 /\ AtCenter(i)

\* the payload lacks the node collection or the edge collection
Malformed(payload) == payload.nodes = Undefined \/ payload.edges = Undefined

\* C12: once a payload without node collection or without edge collection
\* has arrived, the displayed layout is empty: no nodes, no edges
MalformedInputEmpty ==
  (response # <<>> /\ Malformed(response[1])) => (nodes = <<>> /\ edges = <<>>)

\* C13: when no node of a non-empty graph passes the filter, the result is
\* empty: no positioned node, no raw edge, no connector
EmptyVisibleSet ==
  (Ran /\ InData.nodes # <<>> /\ QualifyingIds = {}) =>
    (nodes = <<>> /\ Len(RawEdges) = 0 /\ Len(ConnectorEdges) = 0 /\ edges = <<>>)

\* three nodes joined by edges, none of them passing the filter
EmptyVisibleSetWitness ==
  /\ Ran
  /\ Len(InData.nodes) = 3
  /\ Len(InData.edges) = 2
  /\ QualifyingIds = {}
  /\ nodes = <<>>
  /\ edges = <<>>

(* ----------------------------------------------------------------------- *)
(* Placement inside a cluster                                              *)
(* ----------------------------------------------------------------------- *)
\* the angle of a ring position is (posInRing / nodesInRing) * 2 pi plus
\* pi / 8 on odd rings; AngleIs compares it with k sixteenths of a turn
AngleIs(pos, k) ==
  /\ ~pos.nan
  /\ pos.ringRadius > 0
  /\ pos.turn[2] > 0
  /\ 16 * pos.turn[1] + pos.offset * pos.turn[2] = k * pos.turn[2]

\* scenario A: three displayed nodes, all in cluster 0, one of degree 2 and
\* two of degree 1
ScenarioA ==
  /\ Ran
  /\ Len(nodes) = 3
  /\ \A i \in DOMAIN nodes : nodes[i].cluster_id = <<0>>
  /\ \E a \in DOMAIN nodes :
       nodes[a].degree = 2 /\ \A i \in DOMAIN nodes \ {a} : nodes[i].degree = 1

\* hub at the centre, the two others on ring 1 at the angles k1 and k2
\* sixteenths of a turn
ScenarioALayout(k1, k2) ==
  \E a, b, c \in DOMAIN nodes :
    /\ {a, b, c} = DOMAIN nodes
    /\ nodes[a].degree = 2
    /\ AtCenter(a)
    /\ nodes[b].position.center = nodes[a].position.center
    /\ nodes[c].position.center = nodes[a].position.center
    /\ nodes[b].position.ringRadius = 60
    /\ nodes[c].position.ringRadius = 60
    /\ AngleIs(nodes[b].position, k1)
    /\ AngleIs(nodes[c].position, k2)

\* C14: in scenario A the hub is the node of degree 2, it lies on the centre
\* of cluster 0, and the two others are on ring 1 at the angles 0 and pi
ScenarioAAnglesZeroAndPi == ScenarioA => ScenarioALayout(0, 8)

\* C14 as amended: in scenario A the hub is the node of degree 2, it lies
\* on the centre of cluster 0, and the two others are on ring 1 half a turn
\* apart, at the angles pi/8 and pi + pi/8
ScenarioAAnglesWithOffset == ScenarioA => ScenarioALayout(1, 9)

\* scenario A with the chain 1 -> 2 -> 3: node 2 is the hub
ScenarioAWitness ==
  /\ ScenarioA
  /\ \E a \in DOMAIN nodes : nodes[a].id = 2 /\ nodes[a].degree = 2 /\ AtCenter(a)
  /\ InData.edges = ChainEdges(3)

(* ----------------------------------------------------------------------- *)
(* Cluster filter, self-loops, degree                                      *)
(* ----------------------------------------------------------------------- *)
InputClusterOf(id) == InData.nodes[InputIndex(id)].cluster_id

\* C15: with a cluster filter set there is no connector edge, and every
\* emitted raw edge has both endpoints in the selected cluster
ClusterFilterNoConnectors ==
  (Ran /\ InFilters.cluster # <<>>) =>
    /\ Len(ConnectorEdges) = 0
    /\ \A i \in DOMAIN RawEdges :
         /\ InputClusterOf(RawEdges[i].source) = <<ParseInt(InFilters.cluster)>>
         /\ InputClusterOf(RawEdges[i].target) = <<ParseInt(InFilters.cluster)>>

\* cluster 0 is selected, an input edge leaves it for cluster 1, and the
\* same graph without the cluster filter has a connector
ClusterFilterNoConnectorsWitness ==
  /\ Ran
  /\ InFilters.cluster = <<0>>
  /\ \E i \in DOMAIN InData.edges :
       /\ InputClusterOf(InData.edges[i].source) = <<0>>
       /\ InputClusterOf(InData.edges[i].target) = <<1>>
  /\ Len(RawEdges) = 1
  /\ Len(ConnectorEdges) = 0
  /\ \E i \in DOMAIN processGraphData(InData, [InFilters EXCEPT !.cluster = <<>>], <<>>, <<>>).edges :
       processGraphData(InData, [InFilters EXCEPT !.cluster = <<>>], <<>>, <<>>).edges[i].data.isClusterConnector

IsLoop(e) == e.source = e.target

\* the self-loops of the input on visible nodes
VisibleLoops == SelectSeq(InData.edges, LAMBDA e : IsLoop(e) /\ e.source \in QualifyingIds)

WithoutLoops(data) ==
  [nodes |-> data.nodes, edges |-> SelectSeq(data.edges, LAMBDA e : ~IsLoop(e))]

ConnectedPairs(es) == {es[i].data.clusters : i \in {j \in DOMAIN es : es[j].data.isClusterConnector}}

\* C16: with self-loops on visible nodes every visible node is positioned,
\* each self-loop is emitted as a raw edge, no connector joins a node to
\* itself, and the connected cluster pairs are those of the graph without
\* the self-loops
SelfLoopsHarmless ==
  (Ran /\ Len(VisibleLoops) > 0) =>
    /\ \A id \in QualifyingIds : \E i \in DOMAIN nodes : nodes[i].id = id /\ ~nodes[i].position.nan
    /\ Len(SelectSeq(RawEdges, IsLoop)) = Len(VisibleLoops)
    /\ \A i \in DOMAIN ConnectorEdges : ~IsLoop(ConnectorEdges[i])
    /\ ConnectedPairs(edges)
         = ConnectedPairs(processGraphData(WithoutLoops(InData), InFilters,
                                           lastRun[1].highlightId, lastRun[1].patterns).edges)

\* a self-loop next to an edge that crosses two clusters: the loop is
\* emitted and the only connector is the one of the crossing
SelfLoopsHarmlessWitness ==
  /\ Ran
  /\ Len(VisibleLoops) = 1
  /\ Len(nodes) >= 2
  /\ Len(RawEdges) = 2
  /\ Len(SelectSeq(RawEdges, IsLoop)) = 1
  /\ Len(ConnectorEdges) = 1

\* the visible edges touching a node, each counted once
TouchingEdges(id) == {j \in DOMAIN RawEdges : RawEdges[j].source = id \/ RawEdges[j].target = id}

\* C17: the degree of every displayed node is the number of visible edges
\* touching it, an edge counted once per node it touches: an edge u -> v
\* counts 1 for u and 1 for v, a self-loop on u counts 1 for u
DegreeCountsTouchingEdges ==
  Ran => \A i \in DOMAIN nodes : nodes[i].degree = Cardinality(TouchingEdges(nodes[i].id))

(* ----------------------------------------------------------------------- *)
(* Clusters on the outer circle, rings inside a cluster                    *)
(* ----------------------------------------------------------------------- *)
\* position of cluster group k among the displayed groups in ascending
\* order of id, the unclustered group as -1
AscendingIndex(k) == Cardinality({g \in EmittedGroups : g < k})

\* C18: with K displayed clusters, each cluster is centred at the angular
\* index that is its position in ascending order of cluster id (unclustered
\* as -1), out of K
ClusterRingOrdering ==
  Ran => \A i \in DOMAIN nodes :
           /\ nodes[i].position.center.numClusters = Cardinality(EmittedGroups)
           /\ nodes[i].position.center.clusterIdx = AscendingIndex(GroupKey(nodes[i]))

\* the displayed members of cluster group k in the order they were placed
MemberSeq(k) == SelectSeq(nodes, LAMBDA n : GroupKey(n) = k)

\* the members of group k on ring r
OnRing(k, r) == {i \in DOMAIN MemberSeq(k) : MemberSeq(k)[i].position.ringRadius = 60 * r}

LastRing(k) == (Len(MemberSeq(k)) - 2) \div 8 + 1

\* C19: in a cluster of n >= 2 displayed members, placed in descending
\* order of degree, the i-th member after the hub is on ring
\* floor((i - 1) / 8) + 1 at radius 60 per ring; a ring holds at most 8
\* members, every ring before the last exactly 8, and the members of a ring
\* are one step of (a turn / number of members on the ring) apart
RingAssignment ==
  Ran => \A k \in EmittedGroups :
    LET members == MemberSeq(k)
        n == Len(members)
    IN  n >= 2 =>
          /\ \A i \in 1..(n - 1) : members[i].degree >= members[i + 1].degree
          /\ \A i \in 1..(n - 1) :
               /\ ~members[i + 1].position.nan
               /\ members[i + 1].position.ringRadius = 60 * ((i - 1) \div 8 + 1)
          /\ \A r \in 1..LastRing(k) :
               /\ Cardinality(OnRing(k, r)) <= 8
               /\ r < LastRing(k) => Cardinality(OnRing(k, r)) = 8
               /\ \A i \in OnRing(k, r) :
                    /\ members[i].position.turn[2] = Cardinality(OnRing(k, r))
                    /\ members[i].position.offset = r % 2
               /\ {members[i].position.turn[1] : i \in OnRing(k, r)}
                    = 0..(Cardinality(OnRing(k, r)) - 1)
          /\ \A i \in 2..n : \E r \in 1..LastRing(k) : i \in OnRing(k, r)

\* a cluster of 11: the hub, a full first ring of 8 and 2 members on ring 2
RingAssignmentWitness ==
  /\ Ran
  /\ Len(MemberSeq(0)) = 11
  /\ MemberSeq(0)[1].degree = 10
  /\ AtCenter(CHOOSE i \in DOMAIN nodes : nodes[i] = MemberSeq(0)[1])
  /\ Cardinality(OnRing(0, 1)) = 8
  /\ Cardinality(OnRing(0, 2)) = 2

\* index of cluster group k among the entries of clusterGroups
EntryIndex(k) ==
  LET order == ObjectKeyOrder(filteredNodesOf(InData, InFilters))
  IN  (CHOOSE i \in DOMAIN order : order[i] = k) - 1

\* C20: the only displayed member of a cluster lies exactly on the centre
\* of that cluster, where a hub is placed, and it is the cluster's hub:
\* every connector naming the cluster ends at it
SingletonAtCenter ==
  Ran => \A k \in EmittedGroups :
    Len(MemberSeq(k)) = 1 =>
      LET member == MemberSeq(k)[1]
          center == ClusterCenter(EntryIndex(k), Cardinality(EmittedGroups), 1)
          fNodes == filteredNodesOf(InData, InFilters)
      IN  /\ member.position = PointAt(center, 0, 0, 1, 0)
          /\ clusterCenters(fNodes, filteredEdgesOf(InData, fNodes), k) = <<member.id>>
          /\ \A c \in DOMAIN ConnectorEdges :
               /\ ConnectorEdges[c].data.clusters[1] = k => ConnectorEdges[c].source = member.id
               /\ ConnectorEdges[c].data.clusters[2] = k => ConnectorEdges[c].target = member.id

\* cluster 1 has one member and a connector from the hub of cluster 0 ends
\* at it
SingletonAtCenterWitness ==
  /\ Ran
  /\ Len(MemberSeq(1)) = 1
  /\ Len(MemberSeq(0)) = 2
  /\ AtCenter(CHOOSE i \in DOMAIN nodes : nodes[i] = MemberSeq(1)[1])
  /\ \E c \in DOMAIN ConnectorEdges :
       /\ ConnectorEdges[c].data.clusters = <<0, 1>>
       /\ ConnectorEdges[c].source = MemberSeq(0)[1].id
       /\ ConnectorEdges[c].target = MemberSeq(1)[1].id

(* ----------------------------------------------------------------------- *)
(* Agreement between the stages                                            *)
(* ----------------------------------------------------------------------- *)
\* the connector scan records a cluster pair for this edge
ResolverCrossing(e) == connectedClustersOf(<<e>>, nodes) # <<>>

\* C21: the endpoints of a displayed raw edge are in the same cluster group
\* (nodes without cluster id forming the group -1) exactly when the edge is
\* classified intra-cluster, and exactly when the connector scan does not
\* take it as crossing
MembershipConsistency ==
  Ran => \A i \in DOMAIN RawEdges :
           LET same == GroupOf(RawEdges[i].source) = GroupOf(RawEdges[i].target)
           IN  /\ same <=> RawEdges[i].data.isIntraCluster
               /\ same <=> ~ResolverCrossing(RawEdges[i])

FreshPageLayout(f) == processGraphData(fullData[1], f, highlightId, patterns)

\* C23: whatever filter configurations were applied before, once the
\* recomputation has run the display is the one a fresh page shows for the
\* current configuration; nothing of an earlier recomputation carries over
HistoryIndependence ==
  (~effectPending /\ lastRun # <<>>) =>
    /\ nodes = FreshPageLayout(filters).nodes
    /\ edges = FreshPageLayout(filters).edges

\* a stricter configuration was displayed, then a looser one brought nodes
\* back; the current configuration is not the default one
HistoryIndependenceWitness ==
  /\ ~effectPending
  /\ prevRun # <<>>
  /\ prevRun[1].run.filters # filters
  /\ filters # NoFilter
  /\ Len(prevRun[1].nodes) > 0
  /\ Len(prevRun[1].nodes) < Len(nodes)
  /\ Len(nodes) < Len(fullData[1].nodes)

(* ----------------------------------------------------------------------- *)
(* The two hub selections                                                  *)
(* ----------------------------------------------------------------------- *)
\* clusterCenters[k] as the connector stage computes it for the run's input
ResolverHub(k) ==
  LET fNodes == filteredNodesOf(InData, InFilters)
  IN  clusterCenters(fNodes, filteredEdgesOf(InData, fNodes), k)

\* C24: in every visible cluster of two or more members the node laid out
\* on the cluster centre is the node the connector stage resolves as the
\* cluster's centre node, whatever the degrees, ties included
HubAgreement ==
  Ran => \A k \in EmittedGroups :
           Cardinality(MembersOf(k)) >= 2 =>
             /\ Cardinality({i \in MembersOf(k) : AtCenter(i)}) = 1
             /\ ResolverHub(k) = <<HubId(k)>>

\* three members of one cluster; the hub ties with a later member and is
\* not the first node of the input
HubAgreementWitness ==
  /\ Ran
  /\ Len(nodes) = 3
  /\ \E k \in EmittedGroups :
       /\ Cardinality(MembersOf(k)) = 3
       /\ HubId(k) # InData.nodes[1].id
       /\ \E m \in MembersOf(k) : /\ nodes[m].id # HubId(k)
                                  /\ nodes[m].degree = nodes[CHOOSE i \in MembersOf(k) : AtCenter(i)].degree
       /\ ResolverHub(k) = <<HubId(k)>>

(* ----------------------------------------------------------------------- *)
(* Placement slots                                                         *)
(* ----------------------------------------------------------------------- *)
\* the members of cluster group k that are not on the cluster centre
RingMembers(k) == {i \in MembersOf(k) : ~AtCenter(i)}

\* the slot of a ring member: its ring radius (60 per ring) and its position
\* in the ring
SlotOf(i) == <<nodes[i].position.ringRadius, nodes[i].position.turn[1]>>

\* C25: in every cluster exactly one member is on the centre; every other
\* member is on a ring whose node count is at least 1, at a position from 0
\* to that count minus 1, and no two of them have the same ring and position
SlotUniqueness ==
  Ran => \A k \in EmittedGroups :
           /\ Cardinality(MembersOf(k) \ RingMembers(k)) = 1
           /\ \A i \in RingMembers(k) :
                /\ ~nodes[i].position.nan
                /\ nodes[i].position.ringRadius >= 60
                /\ nodes[i].position.turn[2] >= 1
                /\ nodes[i].position.turn[1] \in 0 .. (nodes[i].position.turn[2] - 1)
           /\ \A i, j \in RingMembers(k) : SlotOf(i) = SlotOf(j) => i = j

\* a cluster of eleven: ring 1 is full, ring 2 holds two nodes, and a node
\* of ring 2 has the position in the ring that a node of ring 1 has
SlotUniquenessWitness ==
  /\ Ran
  /\ \E k \in EmittedGroups :
       /\ Cardinality(MembersOf(k)) = 11
       /\ Cardinality({i \in RingMembers(k) : nodes[i].position.ringRadius = 60}) = 8
       /\ Cardinality({i \in RingMembers(k) : nodes[i].position.ringRadius = 120}) = 2
       /\ \E i, j \in RingMembers(k) :
            /\ nodes[i].position.ringRadius # nodes[j].position.ringRadius
            /\ nodes[i].position.turn[1] = nodes[j].position.turn[1]

(* ----------------------------------------------------------------------- *)
(* Edge ids                                                                *)
(* ----------------------------------------------------------------------- *)
\* C26: no two emitted edges, raw or connector, have the same id
EdgeIdsDistinct ==
  Ran => \A i, j \in DOMAIN edges : edges[i].id = edges[j].id => i = j

(* ----------------------------------------------------------------------- *)
(* What a connector joins                                                  *)
(* ----------------------------------------------------------------------- *)
\* C27: a connector is no self-loop, its two endpoints are in two different
\* clusters, and some raw edge crosses between those two clusters
ConnectorCrossesClusters ==
  Ran => \A c \in DOMAIN ConnectorEdges :
           LET conn == ConnectorEdges[c]
           IN  /\ conn.source # conn.target
               /\ GroupOf(conn.source) # GroupOf(conn.target)
               /\ \E i \in DOMAIN RawEdges :
                    {GroupOf(RawEdges[i].source), GroupOf(RawEdges[i].target)}
                      = {GroupOf(conn.source), GroupOf(conn.target)}

(* ----------------------------------------------------------------------- *)
(* Stricter filters                                                        *)
(* ----------------------------------------------------------------------- *)
\* g is f or f made stricter: the flag switched on, the minimum raised, a
\* cluster selected where none was
AtLeastAsStrict(f, g) ==
  /\ f.showMuleOnly => g.showMuleOnly
  /\ f.minRiskScore <= g.minRiskScore
  /\ f.cluster \in {<<>>, g.cluster}

NodeIdsIn(ns) == {ns[i].id : i \in DOMAIN ns}

\* the raw edges of an edge list, as pairs of endpoints
RawPairsIn(es) ==
  {<<es[i].source, es[i].target>> : i \in {j \in DOMAIN es : ~es[j].data.isClusterConnector}}

RawCountIn(es) == Cardinality({j \in DOMAIN es : ~es[j].data.isClusterConnector})

\* C28: when the configuration displayed now is at least as strict as the
\* one displayed before it, every node and every raw edge displayed now was
\* displayed before
FilterMonotonicity ==
  (prevRun # <<>> /\ ~effectPending
     /\ AtLeastAsStrict(prevRun[1].run.filters, lastRun[1].filters)) =>
    /\ NodeIdsIn(nodes) \subseteq NodeIdsIn(prevRun[1].nodes)
    /\ RawPairsIn(edges) \subseteq RawPairsIn(prevRun[1].edges)
    /\ RawCountIn(edges) <= RawCountIn(prevRun[1].edges)

\* a configuration stricter than a non-default one removed a node and a raw
\* edge and left a node
FilterMonotonicityWitness ==
  /\ prevRun # <<>>
  /\ ~effectPending
  /\ AtLeastAsStrict(prevRun[1].run.filters, lastRun[1].filters)
  /\ prevRun[1].run.filters # lastRun[1].filters
  /\ prevRun[1].run.filters # NoFilter
  /\ Len(nodes) = 1
  /\ Len(prevRun[1].nodes) = 2
  /\ RawCountIn(edges) = 0
  /\ RawCountIn(prevRun[1].edges) = 1

(* ----------------------------------------------------------------------- *)
(* Colour of intra-cluster edges                                           *)
(* ----------------------------------------------------------------------- *)
\* clusterColor of the emitted node with the given id
ClusterColorOf(id) == nodes[CHOOSE i \in DOMAIN nodes : nodes[i].id = id].clusterColor

\* C29: a raw edge classified intra-cluster that is neither suspicious nor
\* part of a detected pattern has the clusterColor of its endpoints as stroke
IntraClusterEdgeColor ==
  Ran => \A i \in DOMAIN RawEdges :
           (/\ RawEdges[i].data.isIntraCluster
            /\ ~RawEdges[i].data.isHighRisk
            /\ ~RawEdges[i].data.isPartOfCircular)
             => /\ RawEdges[i].style.stroke = ClusterColorOf(RawEdges[i].source)
                /\ RawEdges[i].style.stroke = ClusterColorOf(RawEdges[i].target)

(* ----------------------------------------------------------------------- *)
(* Sockets of the transaction stream page                                  *)
(* ----------------------------------------------------------------------- *)
OpenSockets(e) == {s \in sockets : s.endpoint = e /\ s.readyState = "open"}

\* C30: at most one WebSocket per endpoint is open at any time, and after a
\* stopStream that completed no socket is open
SingleSocketPerEndpoint ==
  /\ \A e \in Endpoints : Cardinality(OpenSockets(e)) <= 1
  /\ stopped => \A e \in Endpoints : OpenSockets(e) = {}

====
